---------------------------- MODULE Spec2Model ----------------------------
(***************************************************************************)
(* Orca assistant: the real-time voice session.                            *)
(*                                                                         *)
(* Client (src/static/script.js): the start/stop click handler, the       *)
(* WebSocket handlers, the capture callback, the API key operations and    *)
(* the playback scheduler (playAudioChunk) with its playback clock.        *)
(* The PCM codec (floatTo16BitPCM, base64ToPCMFloat32) works on samples    *)
(* kept as integer multiples of 1/SampleDen.                               *)
(*                                                                         *)
(* Server (backend, not part of the sources at hand): the turn             *)
(* orchestrator, modelled from sections 4.3, 4.4 and 5 of the design.      *)
(*                                                                         *)
(* Time is counted in milliseconds.                                        *)
(***************************************************************************)
EXTENDS Integers, Sequences, FiniteSets, TLC

(* ------------------------------ bounds -------------------------------- *)
\* start attempts that pass the key check (each creates one WebSocket)
MaxStarts == 2
\* start attempts of the user in the single-session specifications
MaxSoloStarts == 1
\* capture blocks delivered in the session of such a user
MaxSoloBlocks == 1
\* blocks the capture pipeline delivers in a run
MaxBlocks == 2
\* audio_chunk messages handled in a run
MaxChunks == 2
\* the audio output clock advances in steps of TickMs up to MaxNow
TickMs == 50
MaxNow == 250
\* the audio time reached where the clock is followed among all the handlers
MaxClockNow == 50
\* unit of the chunk durations fed to the scheduler
DurUnit == 100

\* server: turns per connection, text units per reply, audio chunks per
\* text unit, audio frames received per connection
MaxTurns == 2
MaxUnits == 2
UnitChunks == 2
MaxFrames == 3

\* codec: samples are multiples of 1/SampleDen; the buffers tried hold up to
\* MaxSamples samples taken SampleStride apart, up to SampleSteps strides
\* either side of zero
SampleDen == 1000
SampleStride == 111
SampleSteps == 13
MaxSamples == 2

(* ------------------------- program constants -------------------------- *)
\* 0x8000 and 0x7fff, the scales of floatTo16BitPCM; 32768 is also the
\* divisor of base64ToPCMFloat32
ScaleNeg == 32768
ScalePos == 32767
\* the length of the container header base64ToPCMFloat32 skips
HeaderLen == 44

\* now + 0.15: the pre-roll, in ms
PreRoll == 150

(* ------------------------------ inputs -------------------------------- *)
KeyNames == {"murf", "assembly", "gemini", "tavily", "weather"}

NoKeys == [k \in KeyNames |-> ""]

AllKeys == [k \in KeyNames |-> "k"]

RequiredKeys == [k \in KeyNames |-> IF k \in {"murf", "assembly", "gemini"} THEN "k" ELSE ""]

\* what the form fields may hold when the keys are saved or loaded
KeyConfigs == {NoKeys, AllKeys, RequiredKeys}

\* buffer.duration of a decoded chunk (sampleCount / 44100), in ms; a chunk of
\* no samples has no buffer (createBuffer throws) and so no duration
ChunkDurations == {DurUnit, 3 * DurUnit}

\* the types of the server's messages, "garbage" being unparsable data
MsgTypes == {"transcript", "ai_response", "audio_chunk", "error", "unknown", "garbage"}

SocketIds == 1 .. MaxStarts

PipeIds == 1 .. MaxStarts

(* ------------------------------- state -------------------------------- *)
VARIABLES
    isRecording,    \* let isRecording
    ws,             \* let ws: 0 is null, else the socket's id
    stream,         \* let stream: 0 is undefined, else the pipeline's id
    audioCtx,       \* let audioCtx (capture context)
    source,         \* let source
    processor,      \* let processor
    audioContext,   \* let audioContext (playback): FALSE is undefined
    playheadTime,   \* let playheadTime
    apiKeys,        \* let apiKeys
    sockets,        \* the WebSocket objects created so far
    pipes,          \* the capture pipelines created so far
    pendingStarts,  \* startRecording calls suspended at await getUserMedia
    now,            \* audioContext.currentTime
    captured,       \* blocks delivered by the capture pipeline so far
    chunksHandled,  \* playAudioChunk calls so far
    uncaught,       \* exceptions that escaped a handler, rejections nobody handles
    lastSched,      \* the last chunk scheduled, with the end of the one before it and
                    \* whether the text of a reply has arrived since
    chatLast,       \* the class of the last entry added to the chat log
    stopsSinceStart \* stopRecording calls since a startRecording last got past the key check (0, 1, 2 for more)

clientVars == <<isRecording, ws, stream, audioCtx, source, processor, audioContext,
                playheadTime, apiKeys, sockets, pipes, pendingStarts, now, captured,
                chunksHandled, uncaught, lastSched, chatLast, stopsSinceStart>>

VARIABLES
    connOpen,       \* the session's connection is open
    srvState,       \* the orchestrator's state
    caps,           \* the CapabilityBundle: the capabilities with a credential
    framesIn,       \* audio frames received so far (frame n is the n-th)
    relayed,        \* the frames relayed to the transcription collaborator
    early,          \* the frames received before the control message
    outbound,       \* the events written to the connection since the current turn began
                    \* (since the connection opened, before the first turn), in order
    failedTurns,    \* the turns that ended in an error, each with the error's category
    turn,           \* the number of the current turn (0 before the first)
    history,        \* the session's Turns
    tool,           \* the tool being invoked, "none" if none
    matched,        \* the tool intents the turn's finalized transcript matched
    genUnits,       \* text units the generation has completed in this turn
    synthDone,      \* the text units whose audio has all been received
    synthUnit,      \* the text unit being synthesized, 0 if none
    synthIdx,       \* audio payloads received for that unit so far
    chunkSeq        \* audio chunks produced in this turn so far

serverVars == <<connOpen, srvState, caps, framesIn, relayed, early, outbound, failedTurns,
                turn, history, tool, matched, genUnits, synthDone, synthUnit, synthIdx,
                chunkSeq>>

VARIABLES
    float32Array,   \* the samples handed to floatTo16BitPCM, as multiples of 1/SampleDen
    pcm16,          \* the bytes of the buffer floatTo16BitPCM returned
    decoded,        \* the samples base64ToPCMFloat32 returned, as multiples of 1/32768
    codecPc         \* "input", "encoded" or "decoded"

codecVars == <<float32Array, pcm16, decoded, codecPc>>

vars == <<clientVars, serverVars, codecVars>>

\* an exception or a rejection, and the call it came from
Failure(error, from) == [error |-> error, from |-> from]

NoSocket == [readyState |-> "NONE", sent |-> <<>>]

NoPipe == [tracks |-> "none", ctx |-> "none", sourceConnected |-> FALSE,
           processorConnected |-> FALSE, onaudioprocess |-> FALSE]

NoSched == [start |-> -1, dur |-> 0, now |-> 0, before |-> 0, prevEnd |-> -1,
            replySince |-> FALSE]

\* the page after load, no connection yet
InitSessionState ==
    /\ isRecording = FALSE
    /\ ws = 0
    /\ stream = 0
    /\ audioCtx = 0
    /\ source = 0
    /\ processor = 0
    /\ audioContext = FALSE
    /\ playheadTime = 0
    /\ apiKeys \in KeyConfigs
    /\ sockets = [i \in SocketIds |-> NoSocket]
    /\ pipes = [p \in PipeIds |-> NoPipe]
    /\ pendingStarts = 0
    /\ now = 0
    /\ captured = 0
    /\ chunksHandled = 0
    /\ uncaught = {}
    /\ lastSched = NoSched
    /\ chatLast = "none"
    /\ stopsSinceStart = 0
    /\ connOpen = TRUE
    /\ srvState = "awaiting_keys"
    /\ caps = {}
    /\ framesIn = 0
    /\ relayed = {}
    /\ early = {}
    /\ outbound = <<>>
    /\ failedTurns = {}
    /\ turn = 0
    /\ history = <<>>
    /\ tool = "none"
    /\ matched = {}
    /\ genUnits = 0
    /\ synthDone = {}
    /\ synthUnit = 0
    /\ synthIdx = 0
    /\ chunkSeq = 0

\* no buffer is being encoded or decoded
InitCodecIdle ==
    /\ float32Array = <<>>
    /\ pcm16 = <<>>
    /\ decoded = <<>>
    /\ codecPc = "decoded"

Init == InitSessionState /\ InitCodecIdle

(* --------------------------- API key management ----------------------- *)
\* saveApiKeys: the form fields, trimmed, become apiKeys
SaveApiKeys(cfg) ==
    /\ apiKeys' = cfg
    /\ UNCHANGED stopsSinceStart
    /\ UNCHANGED <<isRecording, ws, stream, audioCtx, source, processor, audioContext,
                   playheadTime, sockets, pipes, pendingStarts, now, captured,
                   chunksHandled, uncaught, lastSched, chatLast>>
    /\ UNCHANGED <<serverVars, codecVars>>

\* clearApiKeys, confirmed by the user
ClearApiKeys ==
    /\ apiKeys' = NoKeys
    /\ UNCHANGED stopsSinceStart
    /\ UNCHANGED <<isRecording, ws, stream, audioCtx, source, processor, audioContext,
                   playheadTime, sockets, pipes, pendingStarts, now, captured,
                   chunksHandled, uncaught, lastSched, chatLast>>
    /\ UNCHANGED <<serverVars, codecVars>>

(* ------------------------------ WebSocket ----------------------------- *)
\* the entries of the api_keys message
HandshakeKeys(keys) ==
    [h \in {"x-murf-key", "x-assembly-key", "x-gemini-key", "x-tavily-key", "x-weather-key"} |->
        CASE h = "x-murf-key" -> keys["murf"]
          [] h = "x-assembly-key" -> keys["assembly"]
          [] h = "x-gemini-key" -> keys["gemini"]
          [] h = "x-tavily-key" -> keys["tavily"]
          [] OTHER -> keys["weather"]]

ApiKeysMsg(keys) == [type |-> "api_keys", keys |-> HandshakeKeys(keys), block |-> 0]

AudioMsg(n) == [type |-> "audio", keys |-> <<>>, block |-> n]

\* WebSocket.send: throws while CONNECTING, queues the data while OPEN,
\* drops it while CLOSING or CLOSED
SendThrows(socks, i) == socks[i].readyState = "CONNECTING"

\* a send that keeps the data for later when the socket is not open
SendOnQueueing(socks, i, msg) == [socks EXCEPT ![i].sent = Append(@, msg)]

SendOn(socks, i, msg) ==
    IF socks[i].readyState = "OPEN"
    THEN [socks EXCEPT ![i].sent = Append(@, msg)]
    ELSE socks

\* WebSocket.close: starts the closing handshake unless already CLOSING or CLOSED
CloseReadyState(rs) == IF rs \in {"CONNECTING", "OPEN"} THEN "CLOSING" ELSE rs

NextSocket ==
    CHOOSE i \in SocketIds :
        /\ sockets[i].readyState = "NONE"
        /\ \A j \in SocketIds : sockets[j].readyState = "NONE" => i <= j

NextPipe ==
    CHOOSE p \in PipeIds :
        /\ pipes[p].tracks = "none"
        /\ \A q \in PipeIds : pipes[q].tracks = "none" => p <= q

(* ------------------------------- codec -------------------------------- *)
\* the quotient a / b (b > 0) with its fraction dropped, as the conversion
\* of a Number to an integer does
Trunc(a, b) == IF a >= 0 THEN a \div b ELSE -((-a) \div b)

\* DataView.setInt16 keeps the low 16 bits of the integer it is given
ToInt16(x) == ((x + ScaleNeg) % (2 * ScaleNeg)) - ScaleNeg

\* Math.max(-1, Math.min(1, sample))
Clamp(n) == IF n < -SampleDen THEN -SampleDen ELSE IF n > SampleDen THEN SampleDen ELSE n

\* an encoder that scales the sample without clamping it first
SampleToInt16Unclamped(n) ==
    ToInt16(Trunc(IF n < 0 THEN n * ScaleNeg ELSE n * ScalePos, SampleDen))

\* floatTo16BitPCM lines 188-189: the 16-bit value written for one sample
SampleToInt16(n) ==
    LET s == Clamp(n) IN
    ToInt16(Trunc(IF s < 0 THEN s * ScaleNeg ELSE s * ScalePos, SampleDen))

\* the two bytes of a 16-bit value, low byte first (littleEndian = true)
LittleEndian(v) == LET u == v % (2 * ScaleNeg) IN <<u % 256, u \div 256>>

\* floatTo16BitPCM: a buffer of two bytes per sample
FloatTo16BitPCM(arr) ==
    [k \in 1 .. 2 * Len(arr) |-> LittleEndian(SampleToInt16(arr[(k + 1) \div 2]))[2 - (k % 2)]]

\* DataView.getInt16(off, true) on the bytes from position off (0-based)
GetInt16(bytes, off) ==
    LET u == bytes[off + 1] + 256 * bytes[off + 2] IN
    IF u >= ScaleNeg THEN u - 2 * ScaleNeg ELSE u

\* base64ToPCMFloat32 lines 199-201: the bytes skipped at the front, the
\* payload longer than the header and starting with "RIFF"
HeaderOffset(binary) ==
    IF Len(binary) > HeaderLen /\ SubSeq(binary, 1, 4) = <<82, 73, 70, 70>>
    THEN HeaderLen ELSE 0

\* new Float32Array(sampleCount) throws when the byte count is odd
Base64ToPCMFloat32Throws(binary) == (Len(binary) - HeaderOffset(binary)) % 2 = 1

\* base64ToPCMFloat32 on the bytes atob returned: sample i is int16 / 32768,
\* kept here as the int16
Base64ToPCMFloat32(binary) ==
    [i \in 1 .. (Len(binary) - HeaderOffset(binary)) \div 2 |->
        GetInt16(binary, HeaderOffset(binary) + 2 * (i - 1))]

\* floatTo16BitPCM is applied to the buffer
Encode ==
    /\ codecPc = "input"
    /\ pcm16' = FloatTo16BitPCM(float32Array)
    /\ codecPc' = "encoded"
    /\ UNCHANGED <<float32Array, decoded>>
    /\ UNCHANGED <<clientVars, serverVars>>

\* base64ToPCMFloat32 is applied to a payload of the encoder's bytes
Decode ==
    /\ codecPc = "encoded"
    /\ IF Base64ToPCMFloat32Throws(pcm16)
       THEN codecPc' = "threw" /\ UNCHANGED decoded
       ELSE codecPc' = "decoded" /\ decoded' = Base64ToPCMFloat32(pcm16)
    /\ UNCHANGED <<float32Array, pcm16>>
    /\ UNCHANGED <<clientVars, serverVars>>

\* a container header: the magic bytes "RIFF" and the rest of its 44 bytes
WavHeader == <<82, 73, 70, 70>> \o [k \in 1 .. HeaderLen - 4 |-> 0]

\* the payloads of an audio_chunk made of the sample bytes body: the bare
\* samples, the samples behind a container header, and the latter with a
\* byte cut off or left over
PayloadsOf(body) == {body, WavHeader \o body, WavHeader \o body \o <<0>>}

\* atob(base64) of an audio_chunk's payload gives the bytes binary
Receive(binary) ==
    /\ codecPc = "input"
    /\ pcm16' = binary
    /\ codecPc' = "received"
    /\ UNCHANGED <<float32Array, decoded>>
    /\ UNCHANGED <<clientVars, serverVars>>

\* base64ToPCMFloat32 is applied to the payload received
Unpack ==
    /\ codecPc = "received"
    /\ IF Base64ToPCMFloat32Throws(pcm16)
       THEN codecPc' = "threw" /\ UNCHANGED decoded
       ELSE codecPc' = "unpacked" /\ decoded' = Base64ToPCMFloat32(pcm16)
    /\ UNCHANGED <<float32Array, pcm16>>
    /\ UNCHANGED <<clientVars, serverVars>>

(* ------------------------------ playback ------------------------------ *)
\* a scheduler that always restarts the clock at now + 0.15
ScheduleAtAlwaysSnap(playhead, t) == t + PreRoll

\* a scheduler that snaps a late clock to the audio time itself
ScheduleAtNoPreRoll(playhead, t) == IF playhead < t THEN t ELSE playhead

\* a scheduler that never moves the clock forward on its own
ScheduleAtKeep(playhead, t) == playhead

\* playAudioChunk lines 236-239: keep the clock or snap it to now + 0.15
ScheduleAt(playhead, t) == IF playhead < t + PreRoll THEN t + PreRoll ELSE playhead

\* a playAudioChunk that makes a new context, and restarts the clock at its
\* currentTime, for every chunk
ClockAtEntryNewContext == now

\* playAudioChunk lines 221-224: the playback context is created on first use
\* and the clock set to its currentTime
ClockAtEntry == IF audioContext THEN playheadTime ELSE now

\* a playAudioChunk that starts the source and leaves the clock where it was
PlayAudioChunkNoAdvance(dur) ==
    LET start == ScheduleAt(ClockAtEntry, now) IN
    /\ audioContext' = TRUE
    /\ playheadTime' = start
    /\ lastSched' = [start |-> start, dur |-> dur, now |-> now, before |-> ClockAtEntry,
                     prevEnd |-> IF lastSched.start < 0 THEN -1
                                 ELSE lastSched.start + lastSched.dur,
                     replySince |-> FALSE]
    /\ chunksHandled' = chunksHandled + 1

\* playAudioChunk, the payload decoding to a buffer of duration dur:
\* source.start(playheadTime), then playheadTime += buffer.duration
PlayAudioChunk(dur) ==
    LET start == ScheduleAt(ClockAtEntry, now) IN
    /\ audioContext' = TRUE
    /\ playheadTime' = start + dur
    /\ lastSched' = [start |-> start, dur |-> dur, now |-> now, before |-> ClockAtEntry,
                     prevEnd |-> IF lastSched.start < 0 THEN -1
                                 ELSE lastSched.start + lastSched.dur,
                     replySince |-> FALSE]
    /\ chunksHandled' = chunksHandled + 1

\* playAudioChunk, base64ToPCMFloat32 throwing on the payload or createBuffer
\* throwing on a payload of no samples: the context exists by then, nothing
\* is scheduled, and onmessage catches the exception
PlayAudioChunkThrows ==
    /\ audioContext' = TRUE
    /\ playheadTime' = ClockAtEntry
    /\ chunksHandled' = chunksHandled + 1
    /\ UNCHANGED lastSched

(* ------------------------------ recording ----------------------------- *)
\* a key check that asks for every credential of the form
KeysMissingAny == \E k \in KeyNames : apiKeys[k] = ""

\* startRecording line 248: the three keys a session cannot do without
KeysMissing == apiKeys["murf"] = "" \/ apiKeys["assembly"] = "" \/ apiKeys["gemini"] = ""

\* stopRecording: the pipelines after detaching the current one
StoppedPipes ==
    [p \in PipeIds |->
        [tracks |-> IF stream = p /\ pipes[p].tracks = "live" THEN "stopped" ELSE pipes[p].tracks,
         ctx |-> IF audioCtx = p THEN "closed" ELSE pipes[p].ctx,
         sourceConnected |-> IF source = p THEN FALSE ELSE pipes[p].sourceConnected,
         processorConnected |-> IF processor = p THEN FALSE ELSE pipes[p].processorConnected,
         onaudioprocess |-> IF processor = p THEN FALSE ELSE pipes[p].onaudioprocess]]

\* stopRecording line 323: audioCtx.close() on a context that is closed
\* already returns a promise rejected with InvalidStateError, which nobody
\* handles
StoppedUncaught ==
    IF audioCtx # 0 /\ pipes[audioCtx].ctx = "closed"
    THEN uncaught \cup {Failure("InvalidStateError", "audioCtx.close")}
    ELSE uncaught

\* a stopRecording that leaves the connection as it is
StoppedSocketsLeftOpen == sockets

\* stopRecording: the sockets after if (ws) ws.close()
StoppedSockets ==
    [i \in SocketIds |->
        IF ws = i THEN [sockets[i] EXCEPT !.readyState = CloseReadyState(@)] ELSE sockets[i]]

\* click while not recording, startRecording returning at the key check:
\* the handler's await completes and it sets isRecording
ClickStartRefused ==
    /\ ~isRecording
    /\ KeysMissing
    /\ isRecording' = TRUE
    /\ UNCHANGED stopsSinceStart
    /\ UNCHANGED <<ws, stream, audioCtx, source, processor, audioContext, playheadTime,
                   apiKeys, sockets, pipes, pendingStarts, now, captured, chunksHandled,
                   uncaught, lastSched, chatLast>>
    /\ UNCHANGED <<serverVars, codecVars>>

\* click while not recording, startRecording up to await getUserMedia:
\* the socket is created and its handlers are set
ClickStart ==
    /\ ~isRecording
    /\ ~KeysMissing
    /\ \E i \in SocketIds : sockets[i].readyState = "NONE"
    /\ ws' = NextSocket
    /\ sockets' = [sockets EXCEPT ![NextSocket].readyState = "CONNECTING"]
    /\ pendingStarts' = pendingStarts + 1
    /\ stopsSinceStart' = 0
    /\ UNCHANGED <<isRecording, stream, audioCtx, source, processor, audioContext,
                   playheadTime, apiKeys, pipes, now, captured, chunksHandled, uncaught,
                   lastSched, chatLast>>
    /\ UNCHANGED <<serverVars, codecVars>>

\* getUserMedia resolves: the rest of startRecording builds the capture
\* pipeline, then the click handler sets isRecording
MicGranted ==
    /\ pendingStarts > 0
    /\ pendingStarts' = pendingStarts - 1
    /\ stream' = NextPipe
    /\ audioCtx' = NextPipe
    /\ source' = NextPipe
    /\ processor' = NextPipe
    /\ pipes' = [pipes EXCEPT ![NextPipe] =
                    [tracks |-> "live", ctx |-> "running", sourceConnected |-> TRUE,
                     processorConnected |-> TRUE, onaudioprocess |-> TRUE]]
    /\ isRecording' = TRUE
    /\ stopsSinceStart' = 0
    /\ UNCHANGED <<ws, audioContext, playheadTime, apiKeys, sockets, now, captured,
                   chunksHandled, uncaught, lastSched, chatLast>>
    /\ UNCHANGED <<serverVars, codecVars>>

\* a click handler that sets the flag although startRecording threw
MicDeniedSetsRecording ==
    /\ pendingStarts > 0
    /\ pendingStarts' = pendingStarts - 1
    /\ isRecording' = TRUE
    /\ UNCHANGED stopsSinceStart
    /\ UNCHANGED <<ws, stream, audioCtx, source, processor, audioContext,
                   playheadTime, apiKeys, sockets, pipes, now, captured, chunksHandled,
                   uncaught, lastSched, chatLast>>
    /\ UNCHANGED <<serverVars, codecVars>>

\* getUserMedia rejects: startRecording throws, the click handler catches
MicDenied ==
    /\ pendingStarts > 0
    /\ pendingStarts' = pendingStarts - 1
    /\ UNCHANGED stopsSinceStart
    /\ UNCHANGED <<isRecording, ws, stream, audioCtx, source, processor, audioContext,
                   playheadTime, apiKeys, sockets, pipes, now, captured, chunksHandled,
                   uncaught, lastSched, chatLast>>
    /\ UNCHANGED <<serverVars, codecVars>>

\* a stop that also puts the playback clock back to zero
ClickStopResettingClock ==
    /\ isRecording
    /\ pipes' = StoppedPipes
    /\ sockets' = StoppedSockets
    /\ uncaught' = StoppedUncaught
    /\ isRecording' = FALSE
    /\ playheadTime' = 0
    /\ stopsSinceStart' = IF stopsSinceStart < 2 THEN stopsSinceStart + 1 ELSE 2
    /\ UNCHANGED <<ws, stream, audioCtx, source, processor, audioContext,
                   apiKeys, pendingStarts, now, captured, chunksHandled,
                   lastSched, chatLast>>
    /\ UNCHANGED <<serverVars, codecVars>>

\* click while recording: stopRecording, the rejection of a second
\* audioCtx.close() included, then isRecording = false
ClickStop ==
    /\ isRecording
    /\ pipes' = StoppedPipes
    /\ sockets' = StoppedSockets
    /\ uncaught' = StoppedUncaught
    /\ isRecording' = FALSE
    /\ stopsSinceStart' = IF stopsSinceStart < 2 THEN stopsSinceStart + 1 ELSE 2
    /\ UNCHANGED <<ws, stream, audioCtx, source, processor, audioContext, playheadTime,
                   apiKeys, pendingStarts, now, captured, chunksHandled,
                   lastSched, chatLast>>
    /\ UNCHANGED <<serverVars, codecVars>>

\* processor.onaudioprocess of pipeline p: the block is encoded and sent on
\* the current ws if that socket is OPEN
AudioProcess(p) ==
    /\ pipes[p].onaudioprocess
    /\ pipes[p].processorConnected
    /\ pipes[p].ctx = "running"
    /\ captured < MaxBlocks
    /\ captured' = captured + 1
    /\ sockets' = IF ws # 0 THEN SendOn(sockets, ws, AudioMsg(captured + 1)) ELSE sockets
    /\ UNCHANGED stopsSinceStart
    /\ UNCHANGED <<isRecording, ws, stream, audioCtx, source, processor, audioContext,
                   playheadTime, apiKeys, pipes, pendingStarts, now, chunksHandled,
                   uncaught, lastSched, chatLast>>
    /\ UNCHANGED <<serverVars, codecVars>>

(* --------------------------- socket events ---------------------------- *)
\* socket i opens: its onopen sends the api_keys message on the current ws
SocketOpens(i) ==
    LET opened == [sockets EXCEPT ![i].readyState = "OPEN"] IN
    /\ sockets[i].readyState = "CONNECTING"
    /\ IF SendThrows(opened, ws)
       THEN /\ sockets' = opened
            /\ uncaught' = uncaught \cup {Failure("InvalidStateError", "ws.send")}
       ELSE /\ sockets' = SendOn(opened, ws, ApiKeysMsg(apiKeys))
            /\ UNCHANGED uncaught
    /\ UNCHANGED stopsSinceStart
    /\ UNCHANGED <<isRecording, ws, stream, audioCtx, source, processor, audioContext,
                   playheadTime, apiKeys, pipes, pendingStarts, now, captured,
                   chunksHandled, lastSched, chatLast>>
    /\ UNCHANGED <<serverVars, codecVars>>

\* socket i closes (the closing handshake ends, the server closes, or the
\* connection fails); onclose only logs
SocketCloses(i) ==
    /\ sockets[i].readyState \in {"CONNECTING", "OPEN", "CLOSING"}
    /\ sockets' = [sockets EXCEPT ![i].readyState = "CLOSED"]
    /\ UNCHANGED stopsSinceStart
    /\ UNCHANGED <<isRecording, ws, stream, audioCtx, source, processor, audioContext,
                   playheadTime, apiKeys, pipes, pendingStarts, now, captured,
                   chunksHandled, uncaught, lastSched, chatLast>>
    /\ UNCHANGED <<serverVars, codecVars>>

\* addTextMessage(text, type) for the message types that reach the chat log
ChatClass(type) ==
    CASE type = "transcript" -> "sent"
      [] type = "ai_response" -> "received"
      [] type = "error" -> "error"
      [] OTHER -> chatLast

\* the record of the last chunk scheduled after a message of the given type:
\* an ai_response is the text of a reply, the chunks after it are that reply's
SchedAfter(type) ==
    IF type = "ai_response" /\ lastSched.start >= 0
    THEN [lastSched EXCEPT !.replySince = TRUE]
    ELSE lastSched

\* an onmessage that gives up the connection when the server reports an error
OnTextMessageClosingOnError(i, type) ==
    /\ sockets[i].readyState = "OPEN"
    /\ type \in MsgTypes \ {"audio_chunk"}
    /\ chatLast' = ChatClass(type)
    /\ lastSched' = SchedAfter(type)
    /\ sockets' = IF type = "error" THEN [sockets EXCEPT ![i].readyState = "CLOSING"]
                  ELSE sockets
    /\ UNCHANGED stopsSinceStart
    /\ UNCHANGED <<isRecording, ws, stream, audioCtx, source, processor, audioContext,
                   playheadTime, apiKeys, pipes, pendingStarts, now, captured,
                   chunksHandled, uncaught>>
    /\ UNCHANGED <<serverVars, codecVars>>

\* ws.onmessage of socket i for a message other than audio_chunk: transcript,
\* ai_response and error add to the chat log, an unknown type and data that
\* does not parse are only logged to the console
OnTextMessage(i, type) ==
    /\ sockets[i].readyState = "OPEN"
    /\ type \in MsgTypes \ {"audio_chunk"}
    /\ chatLast' = ChatClass(type)
    /\ lastSched' = SchedAfter(type)
    /\ UNCHANGED stopsSinceStart
    /\ UNCHANGED <<isRecording, ws, stream, audioCtx, source, processor, audioContext,
                   playheadTime, apiKeys, sockets, pipes, pendingStarts, now, captured,
                   chunksHandled, uncaught>>
    /\ UNCHANGED <<serverVars, codecVars>>

\* ws.onmessage of socket i for an audio_chunk whose payload decodes
OnAudioChunk(i, dur) ==
    /\ sockets[i].readyState = "OPEN"
    /\ chunksHandled < MaxChunks
    /\ PlayAudioChunk(dur)
    /\ UNCHANGED stopsSinceStart
    /\ UNCHANGED <<isRecording, ws, stream, audioCtx, source, processor, apiKeys, sockets,
                   pipes, pendingStarts, now, captured, uncaught, chatLast>>
    /\ UNCHANGED <<serverVars, codecVars>>

\* ws.onmessage of socket i for an audio_chunk whose payload does not decode
\* or decodes to no samples
OnBadAudioChunk(i) ==
    /\ sockets[i].readyState = "OPEN"
    /\ chunksHandled < MaxChunks
    /\ PlayAudioChunkThrows
    /\ UNCHANGED stopsSinceStart
    /\ UNCHANGED <<isRecording, ws, stream, audioCtx, source, processor, apiKeys, sockets,
                   pipes, pendingStarts, now, captured, uncaught, chatLast>>
    /\ UNCHANGED <<serverVars, codecVars>>

\* the playback context's clock advances
Tick ==
    /\ audioContext
    /\ now < MaxNow
    /\ now' = now + TickMs
    /\ UNCHANGED stopsSinceStart
    /\ UNCHANGED <<isRecording, ws, stream, audioCtx, source, processor, audioContext,
                   playheadTime, apiKeys, sockets, pipes, pendingStarts, captured,
                   chunksHandled, uncaught, lastSched, chatLast>>
    /\ UNCHANGED <<serverVars, codecVars>>

(* ------------------------- turn orchestrator --------------------------- *)
\* the tools, in the order tool selection looks for their intents
ToolPriority == <<"task", "search", "weather">>

Tools == {ToolPriority[r] : r \in DOMAIN ToolPriority}

\* the sets of tool intents a finalized transcript may match
Intents == SUBSET Tools

\* a handshake with a credential for every capability
FullHandshake ==
    [h \in {"x-murf-key", "x-assembly-key", "x-gemini-key", "x-tavily-key", "x-weather-key",
            "x-todoist-key"} |-> "k"]

\* the control messages a client may send: those of this client and one
\* that names every capability
Handshakes == {HandshakeKeys(cfg) : cfg \in KeyConfigs} \cup {FullHandshake}

\* the CapabilityBundle built from the credentials of the control message
Capabilities(keys) ==
    {c \in {"synthesis", "transcription", "generation", "web-search", "weather", "task-creation"} :
        LET h == CASE c = "synthesis" -> "x-murf-key"
                   [] c = "transcription" -> "x-assembly-key"
                   [] c = "generation" -> "x-gemini-key"
                   [] c = "web-search" -> "x-tavily-key"
                   [] c = "weather" -> "x-weather-key"
                   [] OTHER -> "x-todoist-key"
        IN  h \in DOMAIN keys /\ keys[h] # ""}

\* the capability a tool intent needs
ToolCapability(intent) ==
    CASE intent = "task" -> "task-creation"
      [] intent = "search" -> "web-search"
      [] OTHER -> "weather"

\* the matched tools whose capability is present
Invocable(intents) == {t \in intents : ToolCapability(t) \in caps}

\* a selection that looks for the intents in the reverse order
SelectToolLowestFirst(intents) ==
    IF Invocable(intents) = {} THEN "none"
    ELSE ToolPriority[CHOOSE r \in DOMAIN ToolPriority :
                        /\ ToolPriority[r] \in Invocable(intents)
                        /\ \A q \in DOMAIN ToolPriority :
                              ToolPriority[q] \in Invocable(intents) => q <= r]

\* tool selection: the first tool in priority order whose intent the
\* transcript matches and whose capability is present, else none
SelectTool(intents) ==
    IF Invocable(intents) = {} THEN "none"
    ELSE ToolPriority[CHOOSE r \in DOMAIN ToolPriority :
                        /\ ToolPriority[r] \in Invocable(intents)
                        /\ \A q \in DOMAIN ToolPriority :
                              ToolPriority[q] \in Invocable(intents) => r <= q]

\* an outbound event
Event(type, t, unit, idx, category) ==
    [type |-> type, turn |-> t, unit |-> unit, idx |-> idx, category |-> category,
     during |-> srvState]

ErrorEvent(t, category) == Event("error", t, 0, 0, category)

\* the per-turn state of an orchestrator that is between turns
TurnReset ==
    /\ tool' = "none"
    /\ genUnits' = 0
    /\ synthDone' = {}
    /\ synthUnit' = 0
    /\ synthIdx' = 0
    /\ chunkSeq' = 0

\* failure of the current turn after the events of log were written: one
\* error event, the turn's sub-tasks are dropped, the orchestrator is idle
FailTurnFrom(log, category) ==
    /\ outbound' = Append(log, ErrorEvent(turn, category))
    /\ failedTurns' = failedTurns \cup {<<turn, category>>}
    /\ srvState' = "idle"
    /\ TurnReset

\* a failure that leaves the orchestrator in the stage that failed
FailTurnInPlace(category) ==
    /\ outbound' = Append(outbound, ErrorEvent(turn, category))
    /\ failedTurns' = failedTurns \cup {<<turn, category>>}
    /\ UNCHANGED <<srvState, tool, genUnits, synthDone, synthUnit, synthIdx, chunkSeq>>

\* failure at any stage of a turn
FailTurn(category) == FailTurnFrom(outbound, category)

\* a handshake that replays the frames received before it
ControlMessageReplaying(keys) ==
    /\ srvState = "awaiting_keys"
    /\ caps' = Capabilities(keys)
    /\ srvState' = "idle"
    /\ relayed' = relayed \cup early
    /\ UNCHANGED <<connOpen, framesIn, early, outbound, failedTurns, turn, history, tool,
                   genUnits, synthDone, synthUnit, synthIdx, chunkSeq>>
    /\ UNCHANGED matched

\* awaiting_keys: the control message establishes the CapabilityBundle
ControlMessage(keys) ==
    /\ srvState = "awaiting_keys"
    /\ caps' = Capabilities(keys)
    /\ srvState' = "idle"
    /\ UNCHANGED <<connOpen, framesIn, relayed, early, outbound, failedTurns, turn, history,
                   tool, genUnits, synthDone, synthUnit, synthIdx, chunkSeq>>
    /\ UNCHANGED matched

\* an audio frame before the control message: an error, the frame is dropped
EarlyFrame ==
    /\ srvState = "awaiting_keys"
    /\ framesIn < MaxFrames
    /\ framesIn' = framesIn + 1
    /\ early' = early \cup {framesIn + 1}
    /\ outbound' = Append(outbound, ErrorEvent(0, "protocol_violation"))
    /\ UNCHANGED <<connOpen, srvState, caps, relayed, failedTurns, turn, history, tool,
                   genUnits, synthDone, synthUnit, synthIdx, chunkSeq>>
    /\ UNCHANGED matched

\* idle, the first frame of an utterance: a turn begins, the transcription
\* session is opened and the frame relayed; without the transcription
\* capability the frame is dropped and a configuration error reported
FirstFrame ==
    /\ srvState = "idle"
    /\ framesIn < MaxFrames
    /\ turn < MaxTurns
    /\ framesIn' = framesIn + 1
    /\ IF "transcription" \in caps
       THEN /\ srvState' = "listening"
            /\ turn' = turn + 1
            /\ relayed' = relayed \cup {framesIn + 1}
            /\ outbound' = <<>>
       ELSE /\ outbound' = Append(outbound, ErrorEvent(0, "configuration"))
            /\ UNCHANGED <<srvState, turn, relayed>>
    /\ UNCHANGED <<connOpen, caps, early, failedTurns, history, tool, genUnits, synthDone,
                   synthUnit, synthIdx, chunkSeq>>
    /\ UNCHANGED matched

\* listening: a further frame is relayed. The orchestrator's states give no
\* transition for a frame taken in finalizing, thinking or speaking, and no
\* action stands for one.
NextFrame ==
    /\ srvState = "listening"
    /\ framesIn < MaxFrames
    /\ framesIn' = framesIn + 1
    /\ relayed' = relayed \cup {framesIn + 1}
    /\ UNCHANGED <<connOpen, srvState, caps, early, outbound, failedTurns, turn, history,
                   tool, genUnits, synthDone, synthUnit, synthIdx, chunkSeq>>
    /\ UNCHANGED matched

\* entering thinking after the events of log were written: the generation
\* capability is checked when first needed, its absence fails the turn
EnterThinking(log) ==
    IF "generation" \in caps
    THEN /\ outbound' = log
         /\ srvState' = "thinking"
         /\ tool' = "none"
         /\ UNCHANGED <<failedTurns, genUnits, synthDone, synthUnit, synthIdx, chunkSeq>>
    ELSE FailTurnFrom(log, "configuration")

\* listening -> finalizing on the transcription collaborator's end-of-turn:
\* the user Turn is appended, transcript is emitted, tool selection runs and
\* the selected tool, if any, is invoked
EndOfTurn(intents) ==
    /\ srvState = "listening"
    /\ history' = Append(history, [role |-> "user", turn |-> turn])
    /\ outbound' = Append(outbound, Event("transcript", turn, 0, 0, "none"))
    /\ srvState' = "finalizing"
    /\ tool' = SelectTool(intents)
    /\ matched' = intents
    /\ UNCHANGED <<connOpen, caps, framesIn, relayed, early, turn, failedTurns, genUnits,
                   synthDone, synthUnit, synthIdx, chunkSeq>>

\* finalizing, no tool selected: the transcript is passed to generation
NoTool ==
    /\ srvState = "finalizing"
    /\ tool = "none"
    /\ EnterThinking(outbound)
    /\ matched' = {}
    /\ UNCHANGED <<connOpen, caps, framesIn, relayed, early, turn, history>>

\* finalizing: the tool returns and its result is folded into the context
ToolReturns ==
    /\ srvState = "finalizing"
    /\ tool # "none"
    /\ EnterThinking(outbound)
    /\ matched' = {}
    /\ UNCHANGED <<connOpen, caps, framesIn, relayed, early, turn, history>>

\* finalizing: the tool fails or times out
ToolFails ==
    /\ srvState = "finalizing"
    /\ tool # "none"
    /\ FailTurn("collaborator_failure")
    /\ UNCHANGED <<connOpen, caps, framesIn, relayed, early, turn, history>>
    /\ matched' = {}

\* thinking: the generation stream completes one more text unit
GenUnit ==
    /\ srvState = "thinking"
    /\ genUnits < MaxUnits
    /\ genUnits' = genUnits + 1
    /\ UNCHANGED <<failedTurns, connOpen, srvState, caps, framesIn, relayed, early, outbound, turn,
                   history, tool, synthDone, synthUnit, synthIdx, chunkSeq>>
    /\ UNCHANGED matched

\* thinking -> speaking: generation completes and ai_response, the full
\* reply text, is emitted
GenDone ==
    /\ srvState = "thinking"
    /\ genUnits >= 1
    /\ outbound' = Append(outbound, Event("ai_response", turn, 0, 0, "none"))
    /\ srvState' = "speaking"
    /\ UNCHANGED <<failedTurns, connOpen, caps, framesIn, relayed, early, turn, history, tool, genUnits,
                   synthDone, synthUnit, synthIdx, chunkSeq>>
    /\ UNCHANGED matched

\* thinking: the generation collaborator fails or times out
GenFails ==
    /\ srvState = "thinking"
    /\ FailTurn("collaborator_failure")
    /\ UNCHANGED <<connOpen, caps, framesIn, relayed, early, turn, history>>
    /\ matched' = {}

\* the completed text units not yet synthesized
Unsynthesized == (1 .. genUnits) \ synthDone

\* picking the most recently completed unit
NextUnitLatest == CHOOSE u \in Unsynthesized : \A v \in Unsynthesized : v <= u

\* text units are synthesized strictly in completion order
NextUnit == CHOOSE u \in Unsynthesized : \A v \in Unsynthesized : u <= v

\* synthesis of the next completed unit starts; without the synthesis
\* capability a configuration error ends the turn
SynthStart ==
    /\ srvState \in {"thinking", "speaking"}
    /\ synthUnit = 0
    /\ Unsynthesized # {}
    /\ IF "synthesis" \in caps
       THEN /\ synthUnit' = NextUnit
            /\ synthIdx' = 0
            /\ UNCHANGED <<srvState, outbound, failedTurns, tool, genUnits, synthDone, chunkSeq>>
       ELSE FailTurn("configuration")
    /\ UNCHANGED <<connOpen, caps, framesIn, relayed, early, turn, history>>
    /\ UNCHANGED matched

\* an audio payload of the unit being synthesized arrives: it is wrapped as
\* audio_chunk and forwarded at once
SynthChunk ==
    LET chunk == Event("audio_chunk", turn, synthUnit, chunkSeq, "none") IN
    /\ srvState \in {"thinking", "speaking"}
    /\ synthUnit # 0
    /\ synthIdx < UnitChunks
    /\ synthIdx' = synthIdx + 1
    /\ chunkSeq' = chunkSeq + 1
    /\ outbound' = Append(outbound, chunk)
    /\ UNCHANGED <<failedTurns, connOpen, srvState, caps, framesIn, relayed, early, turn, history, tool,
                   genUnits, synthDone, synthUnit>>
    /\ UNCHANGED matched

\* the synthesis of the current unit completes
SynthUnitDone ==
    /\ srvState \in {"thinking", "speaking"}
    /\ synthUnit # 0
    /\ synthIdx >= 1
    /\ synthDone' = synthDone \cup {synthUnit}
    /\ synthUnit' = 0
    /\ synthIdx' = 0
    /\ UNCHANGED <<failedTurns, connOpen, srvState, caps, framesIn, relayed, early, outbound, turn,
                   history, tool, genUnits, chunkSeq>>
    /\ UNCHANGED matched

\* the synthesis collaborator fails or times out
SynthFails ==
    /\ srvState \in {"thinking", "speaking"}
    /\ synthUnit # 0
    /\ FailTurn("collaborator_failure")
    /\ UNCHANGED <<connOpen, caps, framesIn, relayed, early, turn, history>>
    /\ matched' = {}

\* an orchestrator that records the reply as soon as it is speaking
TurnDoneBeforeLastUnit ==
    /\ srvState = "speaking"
    /\ history' = Append(history, [role |-> "assistant", turn |-> turn])
    /\ srvState' = "idle"
    /\ TurnReset
    /\ UNCHANGED <<failedTurns, connOpen, caps, framesIn, relayed, early, outbound, turn>>
    /\ matched' = {}

\* speaking -> idle on completion of the last unit: the assistant Turn is
\* appended
TurnDone ==
    /\ srvState = "speaking"
    /\ synthUnit = 0
    /\ Unsynthesized = {}
    /\ history' = Append(history, [role |-> "assistant", turn |-> turn])
    /\ srvState' = "idle"
    /\ TurnReset
    /\ UNCHANGED <<failedTurns, connOpen, caps, framesIn, relayed, early, outbound, turn>>
    /\ matched' = {}

\* a closure that leaves the session's sub-tasks running
CloseWithoutCancel ==
    /\ connOpen
    /\ connOpen' = FALSE
    /\ UNCHANGED <<failedTurns, srvState, caps, framesIn, relayed, early, outbound, turn, history, tool,
                   genUnits, synthDone, synthUnit, synthIdx, chunkSeq>>
    /\ UNCHANGED matched

\* the connection closes, from any state: the session's sub-tasks are
\* cancelled and the orchestrator is in its terminal state
Close ==
    /\ connOpen
    /\ connOpen' = FALSE
    /\ srvState' = "closed"
    /\ UNCHANGED <<failedTurns, caps, framesIn, relayed, early, outbound, turn, history, tool, genUnits,
                   synthDone, synthUnit, synthIdx, chunkSeq>>
    /\ UNCHANGED matched

\* the classes addAudioMessage is given for the user's and the agent's audio
ChatSides == {"sent", "received"}

\* addAudioMessage(audioUrl, type): an entry of class type holding an audio
\* player is appended to the chat log; for a received entry the player is
\* started, and when the browser blocks the playback the promise of play()
\* is rejected with NotAllowedError, which nobody handles
AddAudioMessage(type, blocked) ==
    /\ type \in ChatSides
    /\ chatLast' = type
    /\ uncaught' = IF type = "received" /\ blocked
                   THEN uncaught \cup {Failure("NotAllowedError", "audioPlayer.play")}
                   ELSE uncaught
    /\ UNCHANGED stopsSinceStart
    /\ UNCHANGED <<isRecording, ws, stream, audioCtx, source, processor, audioContext,
                   playheadTime, apiKeys, sockets, pipes, pendingStarts, now, captured,
                   chunksHandled, lastSched>>
    /\ UNCHANGED <<serverVars, codecVars>>

\* endtoendAudio(formdata): the request to /agent/chat answered with its data
\* (ok), or failing or answered with an error status, which the catch turns
\* into an error entry of the chat log
EndToEndAudio(ok) ==
    /\ chatLast' = IF ok THEN chatLast ELSE "error"
    /\ UNCHANGED stopsSinceStart
    /\ UNCHANGED <<isRecording, ws, stream, audioCtx, source, processor, audioContext,
                   playheadTime, apiKeys, sockets, pipes, pendingStarts, now, captured,
                   chunksHandled, uncaught, lastSched>>
    /\ UNCHANGED <<serverVars, codecVars>>

(* --------------------------- specifications --------------------------- *)
\* the number of start attempts that passed the key check so far
StartsMade == Cardinality({i \in SocketIds : sockets[i].readyState # "NONE"})

\* a start click by a user who makes at most limit such attempts
ClickStartWithin(limit) == StartsMade < limit /\ ClickStart

\* a capture block delivered while fewer than limit blocks were delivered
AudioProcessWithin(limit, p) == captured < limit /\ AudioProcess(p)

\* The client session: every handler but the playback of audio chunks, the
\* chat helpers of the page included.
Next ==
    \/ \E cfg \in KeyConfigs : SaveApiKeys(cfg)
    \/ ClearApiKeys
    \/ ClickStartRefused
    \/ ClickStart
    \/ MicGranted
    \/ MicDenied
    \/ ClickStop
    \/ \E p \in PipeIds : AudioProcess(p)
    \/ \E i \in SocketIds : SocketOpens(i)
    \/ \E i \in SocketIds : SocketCloses(i)
    \/ \E i \in SocketIds, type \in MsgTypes \ {"audio_chunk"} : OnTextMessage(i, type)
    \/ \E type \in ChatSides, blocked \in BOOLEAN : AddAudioMessage(type, blocked)
    \/ \E ok \in BOOLEAN : EndToEndAudio(ok)

Spec == Init /\ [][Next]_vars

\* The client session of a user who passes the key check at most
\* MaxSoloStarts times, with at most MaxSoloBlocks capture blocks delivered.
NextSolo ==
    \/ \E cfg \in KeyConfigs : SaveApiKeys(cfg)
    \/ ClearApiKeys
    \/ ClickStartRefused
    \/ ClickStartWithin(MaxSoloStarts)
    \/ MicGranted
    \/ MicDenied
    \/ ClickStop
    \/ \E p \in PipeIds : AudioProcessWithin(MaxSoloBlocks, p)
    \/ \E i \in SocketIds : SocketOpens(i)
    \/ \E i \in SocketIds : SocketCloses(i)
    \/ \E i \in SocketIds, type \in MsgTypes \ {"audio_chunk"} : OnTextMessage(i, type)
    \/ \E ok \in BOOLEAN : EndToEndAudio(ok)
    \/ \E type \in ChatSides, blocked \in BOOLEAN : AddAudioMessage(type, blocked)

SpecSolo == Init /\ [][NextSolo]_vars

\* Playback: the keys are configured, recording is started and stopped, and
\* the server's audio chunks arrive as the playback context's clock advances.
InitPlayback == Init /\ apiKeys = AllKeys

NextPlayback ==
    \/ ClickStartWithin(MaxSoloStarts)
    \/ MicGranted
    \/ MicDenied
    \/ ClickStop
    \/ \E i \in SocketIds : SocketOpens(i)
    \/ \E i \in SocketIds : SocketCloses(i)
    \/ \E i \in SocketIds, dur \in ChunkDurations : OnAudioChunk(i, dur)
    \/ \E i \in SocketIds : OnBadAudioChunk(i)
    \/ Tick

SpecPlayback == InitPlayback /\ [][NextPlayback]_vars

\* Capture: the keys are configured; recording is started and stopped, also
\* by clicks that come before the microphone permission is answered, while
\* the capture pipelines deliver blocks and the sockets open and close.
InitCapture == Init /\ apiKeys = AllKeys

NextCapture ==
    \/ ClickStart
    \/ MicGranted
    \/ MicDenied
    \/ ClickStop
    \/ \E p \in PipeIds : AudioProcess(p)
    \/ \E i \in SocketIds : SocketOpens(i)
    \/ \E i \in SocketIds : SocketCloses(i)

SpecCapture == InitCapture /\ [][NextCapture]_vars

\* The server side of one connection: the turn orchestrator and its
\* collaborators, the client idle.
InitServer == Init /\ apiKeys = NoKeys

ServerStep ==
    \/ \E keys \in Handshakes : ControlMessage(keys)
    \/ EarlyFrame
    \/ FirstFrame
    \/ NextFrame
    \/ \E intents \in Intents : EndOfTurn(intents)
    \/ NoTool
    \/ ToolReturns
    \/ ToolFails
    \/ GenUnit
    \/ GenDone
    \/ GenFails
    \/ SynthStart
    \/ SynthChunk
    \/ SynthUnitDone
    \/ SynthFails
    \/ TurnDone
    \/ Close

NextServer == ServerStep /\ UNCHANGED <<clientVars, codecVars>>

SpecServer == InitServer /\ [][NextServer]_vars

\* The codec: a buffer of samples, also out of range, is encoded, and the
\* bytes are decoded again; or a payload with the samples' bytes, with or
\* without a container header, is received and decoded.
Samples == {m * SampleStride : m \in -SampleSteps .. SampleSteps} \cup {-SampleDen, SampleDen}

Buffers == UNION {[1 .. n -> Samples] : n \in 0 .. MaxSamples}

InitCodec ==
    /\ InitSessionState
    /\ apiKeys = NoKeys
    /\ float32Array \in Buffers
    /\ pcm16 = <<>>
    /\ decoded = <<>>
    /\ codecPc = "input"

NextCodec ==
    \/ Encode
    \/ Decode
    \/ \E binary \in PayloadsOf(FloatTo16BitPCM(float32Array)) : Receive(binary)
    \/ Unpack

SpecCodec == InitCodec /\ [][NextCodec]_vars

\* A whole session: the user's first start opens the connection, the
\* api_keys message the client sent on it reaches the server as the control
\* message, and the turns follow.
FirstStart == StartsMade = 0 /\ ClickStart

\* the api_keys message sent on socket i arrives at the server
SessionHandshake(i) ==
    /\ sockets[i].readyState = "OPEN"
    /\ Len(sockets[i].sent) >= 1
    /\ sockets[i].sent[1].type = "api_keys"
    /\ ControlMessage(sockets[i].sent[1].keys)
    /\ UNCHANGED <<clientVars, codecVars>>

SessionServerStep ==
    \/ EarlyFrame
    \/ FirstFrame
    \/ NextFrame
    \/ \E intents \in Intents : EndOfTurn(intents)
    \/ NoTool
    \/ ToolReturns
    \/ ToolFails
    \/ GenUnit
    \/ GenDone
    \/ GenFails
    \/ SynthStart
    \/ SynthChunk
    \/ SynthUnitDone
    \/ SynthFails
    \/ TurnDone
    \/ Close

NextSession ==
    \/ ClickStartRefused
    \/ FirstStart
    \/ MicGranted
    \/ \E i \in SocketIds : SocketOpens(i)
    \/ \E i \in SocketIds : SessionHandshake(i)
    \/ SessionServerStep /\ UNCHANGED <<clientVars, codecVars>>

SpecSession == Init /\ [][NextSession]_vars

\* the audio time advancing while it is below limit
TickWithin(limit) == now < limit /\ Tick

\* The playback clock among the other handlers: the keys are saved and
\* cleared, the user's first start is refused or made, recording is stopped,
\* capture blocks are delivered, the socket opens and closes, the chat
\* helpers are called and the server's messages, audio chunks among them,
\* arrive, the audio time advancing up to MaxClockNow.
NextClock ==
    \/ \E cfg \in KeyConfigs : SaveApiKeys(cfg)
    \/ ClearApiKeys
    \/ ClickStartRefused
    \/ FirstStart
    \/ MicGranted
    \/ MicDenied
    \/ ClickStop
    \/ \E i \in SocketIds : SocketOpens(i)
    \/ \E i \in SocketIds, type \in MsgTypes \ {"audio_chunk"} : OnTextMessage(i, type)
    \/ \E i \in SocketIds, dur \in ChunkDurations : OnAudioChunk(i, dur)
    \/ \E i \in SocketIds : OnBadAudioChunk(i)
    \/ TickWithin(MaxClockNow)
    \/ \E ok \in BOOLEAN : EndToEndAudio(ok)
    \/ \E type \in ChatSides, blocked \in BOOLEAN : AddAudioMessage(type, blocked)
    \/ \E p \in PipeIds : AudioProcessWithin(MaxSoloBlocks, p)
    \/ \E i \in SocketIds : SocketCloses(i)

SpecClock == Init /\ [][NextClock]_vars

(* ------------------------------- claims -------------------------------- *)
\* C1: the playback clock never decreases: in every step (audio chunks,
\* other messages, start and stop of recording, socket events, the passing
\* of time) playheadTime after the step is at least playheadTime before it.
C1_ClockNeverDecreases == [][playheadTime' >= playheadTime]_vars

\* chunks were scheduled, the clock advanced past the first pre-roll, and
\* recording was started and stopped
C1_Witness ==
    /\ chunksHandled >= 2
    /\ playheadTime > PreRoll
    /\ stopsSinceStart >= 1
    /\ now > 0

\* C2 as stated: whenever chunk k+1 is handled while the clock is still in
\* the future (playheadTime > now), the clock is kept and chunk k+1 starts
\* exactly at start(k) + duration(k).
C2_KeptWhenInFuture ==
    (lastSched.prevEnd >= 0 /\ lastSched.before > lastSched.now)
        => (lastSched.start = lastSched.before /\ lastSched.start = lastSched.prevEnd)

\* C2 as amended: whenever chunk k+1 is handled while the clock is at least
\* the pre-roll ahead of now (playheadTime >= now + 0.15), the clock is kept
\* and chunk k+1 starts exactly at start(k) + duration(k), with no silence.
C2_KeptWhenLeadRemains ==
    (lastSched.prevEnd >= 0 /\ lastSched.before >= lastSched.now + PreRoll)
        => (lastSched.start = lastSched.before /\ lastSched.start = lastSched.prevEnd)

\* a chunk handled after time has passed, the clock still a pre-roll ahead
C2_Witness ==
    /\ lastSched.prevEnd >= 0
    /\ lastSched.now > 0
    /\ lastSched.before >= lastSched.now + PreRoll
    /\ lastSched.start = lastSched.prevEnd

\* C3: scheduled intervals never overlap: each chunk starts at or after the
\* previous chunk's start plus its duration, and after each playAudioChunk
\* the clock is that chunk's start plus exactly its duration.
C3_NoOverlap ==
    /\ lastSched.prevEnd >= 0 => lastSched.start >= lastSched.prevEnd
    /\ lastSched.start >= 0 => playheadTime = lastSched.start + lastSched.dur

\* a chunk of positive duration scheduled right at the end of the one before
C3_Witness ==
    /\ lastSched.prevEnd > PreRoll
    /\ lastSched.start = lastSched.prevEnd
    /\ lastSched.dur > 0

\* the api_keys messages among the first n messages sent on a socket
RECURSIVE KeysSentIn(_, _)
KeysSentIn(sent, n) ==
    IF n = 0 THEN 0
    ELSE KeysSentIn(sent, n - 1) + (IF sent[n].type = "api_keys" THEN 1 ELSE 0)

KeysSent(i) == KeysSentIn(sockets[i].sent, Len(sockets[i].sent))

\* C4: on every connection the client opens the api_keys message is sent
\* exactly once and before any audio frame: a socket that is OPEN has one
\* api_keys message in what was sent on it, no socket has more than one, and
\* the first message sent on any socket is the api_keys message.
C4_HandshakeOncePerConnection ==
    \A i \in SocketIds :
        /\ KeysSent(i) <= 1
        /\ sockets[i].readyState = "OPEN" => KeysSent(i) = 1
        /\ sockets[i].sent # <<>> => sockets[i].sent[1].type = "api_keys"

\* the positions of the outbound events
Written == 1 .. Len(outbound)

\* C5: the events of a turn are written in the order transcript, ai_response,
\* audio_chunk: every ai_response follows the transcript of its turn, every
\* audio_chunk follows the ai_response of its turn, and a turn has at most
\* one transcript and one ai_response, also when audio of an early text unit
\* arrives while later units are still being generated.
C5_TurnOrder ==
    \A j \in Written :
        /\ outbound[j].type = "ai_response" =>
               \E i \in 1 .. j - 1 :
                   outbound[i].type = "transcript" /\ outbound[i].turn = outbound[j].turn
        /\ outbound[j].type = "audio_chunk" =>
               \E i \in 1 .. j - 1 :
                   outbound[i].type = "ai_response" /\ outbound[i].turn = outbound[j].turn
        /\ outbound[j].type \in {"transcript", "ai_response"} =>
               \A i \in 1 .. j - 1 :
                   ~(outbound[i].type = outbound[j].type /\ outbound[i].turn = outbound[j].turn)

\* C6: within a turn no audio_chunk of a later text unit is written before
\* an audio_chunk of an earlier unit, and chunk indices increase.
C6_UnitOrder ==
    \A i, j \in Written :
        (i < j /\ outbound[i].type = "audio_chunk" /\ outbound[j].type = "audio_chunk"
               /\ outbound[i].turn = outbound[j].turn)
            => (outbound[i].unit <= outbound[j].unit /\ outbound[i].idx < outbound[j].idx)

\* the chunks of two text units of one turn have been written, the first
\* unit's audio having arrived during generation
C6_Witness ==
    \E i, j \in Written :
        /\ i < j
        /\ outbound[i].type = "audio_chunk" /\ outbound[i].unit = 1
        /\ outbound[i].during = "thinking"
        /\ outbound[j].type = "audio_chunk" /\ outbound[j].unit = 2

\* C7: an audio frame received before the control message produces an error
\* event and is dropped with the connection left open, and it is never
\* relayed to transcription, whatever arrives later.
C7_EarlyFrameRejected ==
    /\ [](early \cap relayed = {})
    /\ [][early' # early =>
              /\ outbound' = Append(outbound, ErrorEvent(0, "protocol_violation"))
              /\ relayed' = relayed
              /\ connOpen'
              /\ srvState' = "awaiting_keys"]_vars

\* a frame was rejected, the control message arrived and later frames were
\* relayed
C7_Witness ==
    /\ early # {}
    /\ Cardinality(relayed) >= 2
    /\ connOpen

\* the error events of turn t among the outbound events
ErrorsOf(t) == {j \in Written : outbound[j].type = "error" /\ outbound[j].turn = t}

\* C8: when a collaborator fails during a turn exactly one error event is
\* written for that turn and nothing after it, the connection stays open and
\* the orchestrator is idle, from where a following turn is accepted.
C8_OneErrorThenIdle ==
    /\ [](/\ turn >= 1 => Cardinality(ErrorsOf(turn)) <= 1
          /\ (\E c \in {"collaborator_failure", "configuration"} : <<turn, c>> \in failedTurns) =>
                 /\ Cardinality(ErrorsOf(turn)) = 1
                 /\ outbound[Len(outbound)].type = "error"
                 /\ srvState \in {"idle", "closed"})
    /\ [][failedTurns' # failedTurns =>
              /\ connOpen'
              /\ srvState' = "idle"
              /\ Len(outbound') = Len(outbound) + 1
              /\ outbound'[Len(outbound')].type = "error"]_vars

\* after a turn that a collaborator failed, the next turn ran to completion
C8_Witness ==
    /\ <<1, "collaborator_failure">> \in failedTurns
    /\ \E k \in 1 .. Len(history) : history[k] = [role |-> "assistant", turn |-> 2]
    /\ connOpen

\* C9: once the connection is closed no outbound event is written, whichever
\* sub-task was in flight at the closure.
C9_NoWriteAfterClose == [][~connOpen => outbound' = outbound]_vars

\* the connection closed while synthesis was in flight and generation was
\* still running
C9_Witness ==
    /\ ~connOpen
    /\ synthUnit # 0
    /\ genUnits >= 1
    /\ \E j \in Written : outbound[j].type = "audio_chunk"
    /\ \A j \in Written : outbound[j].type # "ai_response"

\* C10: a stopRecording call made after an earlier one, with no start
\* getting past the key check or completing in between, changes nothing and
\* raises no error: the pipelines, the sockets and the handles are as the
\* earlier call left them, with the capture callback detached, the nodes
\* disconnected, the tracks stopped, the capture context closed and the
\* connection closing or closed.
C10_SecondStopChangesNothing ==
    [][(isRecording /\ ~isRecording' /\ stopsSinceStart >= 1) =>
            /\ pipes' = pipes
            /\ sockets' = sockets
            /\ uncaught' = uncaught
            /\ <<ws, stream, audioCtx, source, processor>>' = <<ws, stream, audioCtx, source, processor>>
            /\ processor # 0 =>
                   /\ ~pipes'[processor].onaudioprocess
                   /\ ~pipes'[processor].processorConnected
                   /\ ~pipes'[source].sourceConnected
                   /\ pipes'[audioCtx].ctx = "closed"
                   /\ pipes'[stream].tracks = "stopped"
            /\ ws # 0 => sockets'[ws].readyState \in {"CLOSING", "CLOSED"}]_vars

\* the audio frames among the messages sent on socket i
AudioSent(i) == {k \in 1 .. Len(sockets[i].sent) : sockets[i].sent[k].type = "audio"}

\* C11: after stopRecording returns no further audio frame is sent on the
\* connection that was active: the stop leaves that connection closing or
\* closed, a connection that is closing or closed never reopens, and no
\* message is put on it however the capture callbacks interleave.
C11_NoFrameAfterStop ==
    [][/\ (isRecording /\ ~isRecording' /\ ws # 0)
            => sockets'[ws].readyState \in {"CLOSING", "CLOSED"}
       /\ \A i \in SocketIds :
            sockets[i].readyState \in {"CLOSING", "CLOSED"}
                => /\ sockets'[i].readyState \in {"CLOSING", "CLOSED"}
                   /\ sockets'[i].sent = sockets[i].sent]_vars

\* the recording was stopped after a frame went out on the active
\* connection, and a capture pipeline started by another click still
\* delivers blocks
C11_Witness ==
    /\ stopsSinceStart >= 1
    /\ ~isRecording
    /\ ws # 0
    /\ AudioSent(ws) # {}
    /\ sockets[ws].readyState = "CLOSED"
    /\ captured = MaxBlocks
    /\ \E p \in PipeIds : pipes[p].onaudioprocess /\ pipes[p].ctx = "running"

\* C12: an error event does not close the connection: the step that puts an
\* error entry in the chat log leaves every WebSocket, isRecording, the
\* capture pipelines and their handles as they were, and while the last
\* entry is an error every open connection still processes a message.
C12_ErrorKeepsConnection ==
    /\ [][(chatLast # "error" /\ chatLast' = "error")
            => /\ sockets' = sockets
               /\ isRecording' = isRecording
               /\ pipes' = pipes
               /\ <<ws, stream, audioCtx, source, processor>>' =
                      <<ws, stream, audioCtx, source, processor>>
               /\ uncaught' = uncaught]_vars
    /\ [](chatLast = "error"
            => \A i \in SocketIds :
                  sockets[i].readyState = "OPEN" => ENABLED OnTextMessage(i, "ai_response"))

\* an error was received while recording on an open connection that had
\* carried a frame, and it is the last entry of the chat log
C12_Witness ==
    /\ chatLast = "error"
    /\ isRecording
    /\ ws # 0
    /\ sockets[ws].readyState = "OPEN"
    /\ AudioSent(ws) # {}
    /\ pipes[processor].onaudioprocess

\* the capabilities a conversational turn cannot do without
Essential == {"synthesis", "transcription", "generation"}

\* the types of the events written so far in the current turn
TypesWritten == {outbound[j].type : j \in Written}

\* C13: an empty web-search or weather credential, the transcription,
\* generation and synthesis credentials being present, prevents neither the
\* start of a session nor a conversational turn: the start is not refused,
\* the handshake sent on the opened connection carries the keys as they are,
\* the server's bundle built from it has the essential capabilities, and no
\* turn ends in a configuration error.
C13_NonEssentialOptional ==
    /\ (apiKeys = RequiredKeys /\ ~isRecording /\ StartsMade = 0) => ENABLED FirstStart
    /\ \A i \in SocketIds :
          (sockets[i].readyState = "OPEN" /\ Len(sockets[i].sent) >= 1)
              => sockets[i].sent[1] = ApiKeysMsg(apiKeys)
    /\ srvState \notin {"awaiting_keys", "closed"}
          => /\ Essential \subseteq caps
             /\ caps = Capabilities(HandshakeKeys(apiKeys))
    /\ \A f \in failedTurns : f[2] # "configuration"
    /\ \A j \in Written : outbound[j].category # "configuration"

\* a session started without the web-search and weather credentials in
\* which a turn was completed with its transcript, reply and audio
C13_Witness ==
    /\ apiKeys = RequiredKeys
    /\ "weather" \notin caps /\ "web-search" \notin caps
    /\ srvState = "idle"
    /\ \E k \in 1 .. Len(history) : history[k] = [role |-> "assistant", turn |-> 1]
    /\ turn = 1
    /\ {"transcript", "ai_response", "audio_chunk"} \subseteq TypesWritten

\* the positions of the samples that lie in [-1, 1]
InRange == {k \in 1 .. Len(float32Array) :
               float32Array[k] >= -SampleDen /\ float32Array[k] <= SampleDen}

\* |a - b|
Dist(a, b) == IF a >= b THEN a - b ELSE b - a

\* C14: decoding the bytes floatTo16BitPCM produced gives, for every input
\* sample in [-1, 1], a sample within one quantization step (1/32768) of it.
C14_RoundTripWithinOneStep ==
    codecPc = "decoded"
        => /\ Len(decoded) = Len(float32Array)
           /\ \A k \in InRange :
                 Dist(float32Array[k] * ScaleNeg, decoded[k] * SampleDen) <= SampleDen

\* C15: floatTo16BitPCM saturates: the buffer holds two bytes per input
\* sample, the little-endian 16-bit value of a sample at or below -1 is
\* -32768 and of a sample at or above 1 is 32767, and the value of every
\* sample lies in [-32768, 32767] with the sample's sign, so nothing wraps.
C15_Saturates ==
    codecPc \in {"encoded", "decoded"}
        => /\ Len(pcm16) = 2 * Len(float32Array)
           /\ \A k \in 1 .. Len(pcm16) : pcm16[k] \in 0 .. 255
           /\ \A k \in 1 .. Len(float32Array) :
                 LET v == GetInt16(pcm16, 2 * (k - 1)) IN
                 /\ v \in -ScaleNeg .. ScalePos
                 /\ float32Array[k] <= -SampleDen => v = -ScaleNeg
                 /\ float32Array[k] >= SampleDen => v = ScalePos
                 /\ float32Array[k] >= 0 => v >= 0
                 /\ float32Array[k] <= 0 => v <= 0

\* a buffer with a sample above 1 and a sample below -1 was encoded
C15_Witness ==
    /\ codecPc = "encoded"
    /\ Len(float32Array) = MaxSamples
    /\ \E k \in 1 .. Len(float32Array) : float32Array[k] > SampleDen
    /\ \E k \in 1 .. Len(float32Array) : float32Array[k] < -SampleDen

\* C17: the conversation history is append-only and chronological: a step
\* leaves it as it is or appends one entry to it; a user entry is appended on
\* the end-of-turn signal, when the turn is finalized; an assistant entry is
\* appended only in speaking with every generated unit synthesized; and in
\* the history the turns never go back, each assistant entry coming right
\* after the user entry of its turn.
C17_HistoryAppendOnly ==
    /\ [][history' # history
            => /\ Len(history') = Len(history) + 1
               /\ SubSeq(history', 1, Len(history)) = history
               /\ LET entry == history'[Len(history')] IN
                  /\ entry.turn = turn
                  /\ entry.role = "user"
                        => srvState = "listening" /\ srvState' # "listening"
                  /\ entry.role = "assistant"
                        => /\ srvState = "speaking" /\ srvState' = "idle"
                           /\ genUnits >= 1
                           /\ synthDone = 1 .. genUnits
                           /\ synthUnit = 0]_vars
    /\ [](\A k \in 1 .. Len(history) :
            /\ k > 1 => history[k - 1].turn <= history[k].turn
            /\ history[k].role = "assistant"
                  => k > 1 /\ history[k - 1] = [role |-> "user", turn |-> history[k].turn]
            /\ (k > 1 /\ history[k].role = "user") => history[k - 1].turn < history[k].turn)

\* two turns were completed, each with its user and its assistant entry
C17_Witness ==
    /\ Len(history) = 4
    /\ history[2] = [role |-> "assistant", turn |-> 1]
    /\ history[4] = [role |-> "assistant", turn |-> 2]
    /\ Cardinality(synthDone) = 0
    /\ srvState = "idle"

\* the place of a tool in the priority order
Rank(t) == CHOOSE r \in DOMAIN ToolPriority : ToolPriority[r] = t

\* C18: tool selection looks for the intents in the order task-creation,
\* live-search, weather: the tool invoked for a finalized transcript is one
\* the transcript matches, its capability is present, and no matched tool
\* with its capability present comes before it in that order; a tool is
\* selected once per turn, on the end-of-turn signal, and is in use only
\* while finalizing; a transcript that matches no tool goes to generation
\* as it is.
C18_ToolSelection ==
    /\ [](/\ ToolPriority = <<"task", "search", "weather">>
          /\ srvState = "finalizing"
                => /\ tool \in Tools \cup {"none"}
                   /\ tool # "none"
                         => /\ tool \in matched
                            /\ ToolCapability(tool) \in caps
                            /\ \A t \in matched :
                                  ToolCapability(t) \in caps => Rank(tool) <= Rank(t)
                   /\ matched = {} => tool = "none"
          /\ srvState \notin {"finalizing", "closed"} => tool = "none")
    /\ [][(tool' # tool /\ tool' # "none") => (srvState = "listening" /\ tool = "none")]_vars
    /\ [][(srvState = "finalizing" /\ tool = "none" /\ srvState' \notin {"finalizing", "closed"})
            => /\ srvState' = "thinking"
               /\ tool' = "none"
               /\ outbound' = outbound
               /\ history' = history]_vars

\* a transcript matching all three intents was finalized with every
\* capability present, and the task tool is being invoked
C18_Witness ==
    /\ srvState = "finalizing"
    /\ matched = Tools
    /\ {ToolCapability(t) : t \in Tools} \subseteq caps
    /\ tool = "task"

\* no capture pipeline has been built
NoPipeline == \A p \in PipeIds : pipes[p].tracks = "none"

\* C19: a start whose microphone request is denied fails at once and stays
\* local: the step in which getUserMedia rejects builds no pipeline, sends
\* nothing, lets no exception escape and leaves isRecording as it was; and
\* when every start so far was denied, isRecording is false, no audio frame
\* was sent on any connection, and the button starts a new attempt.
C19_MicDeniedFailsFast ==
    /\ [][(pendingStarts' < pendingStarts /\ stream' = stream)
            => /\ isRecording' = isRecording
               /\ pipes' = pipes
               /\ sockets' = sockets
               /\ captured' = captured
               /\ uncaught' = uncaught]_vars
    /\ []((StartsMade >= 1 /\ pendingStarts = 0 /\ NoPipeline)
            => /\ ~isRecording
               /\ \A i \in SocketIds : AudioSent(i) = {}
               /\ captured = 0
               /\ StartsMade < MaxStarts => ENABLED ClickStart)

\* the microphone was denied to the only start made; its connection opened
\* and got the handshake
C19_Witness ==
    /\ StartsMade = 1
    /\ pendingStarts = 0
    /\ NoPipeline
    /\ ~isRecording
    /\ sockets[ws].readyState = "OPEN"
    /\ Len(sockets[ws].sent) = 1

\* C20: a chunk handled when the playback clock is not in the future
\* (playheadTime <= now) is scheduled at exactly now + the pre-roll of
\* 150 ms, and the clock is then that start plus the chunk's duration, so the
\* clock is never left behind the audio time.
C20_SnapWhenBehind ==
    /\ PreRoll = 150
    /\ (lastSched.start >= 0 /\ lastSched.before <= lastSched.now)
          => /\ lastSched.start = lastSched.now + PreRoll
             /\ playheadTime = lastSched.now + PreRoll + lastSched.dur
    /\ lastSched.start >= 0 => playheadTime >= lastSched.now + PreRoll

\* a chunk arrived after the audio of the chunk before it had run out, the
\* audio time having caught up with the clock
C20_Witness ==
    /\ lastSched.prevEnd >= 0
    /\ lastSched.now > 0
    /\ lastSched.before <= lastSched.now
    /\ lastSched.start = lastSched.now + PreRoll

\* C21: the first audio chunk sets up the playback state: the playback
\* context comes into being in the handling of the first chunk and is kept
\* from then on, the first chunk scheduled starts at exactly the audio time
\* plus the pre-roll of 150 ms, and a chunk handled when the context exists
\* starts from the clock as the chunk before left it.
C21_FirstChunkInitialises ==
    /\ [](/\ PreRoll = 150
          /\ audioContext <=> chunksHandled >= 1
          /\ ~audioContext => playheadTime = 0 /\ lastSched = NoSched
          /\ (lastSched.start >= 0 /\ lastSched.prevEnd < 0)
                => lastSched.start = lastSched.now + PreRoll)
    /\ [][audioContext => audioContext']_vars
    /\ [][(~audioContext /\ audioContext') => (chunksHandled = 0 /\ chunksHandled' = 1)]_vars
    /\ [][(audioContext /\ chunksHandled' # chunksHandled /\ lastSched' # lastSched)
            => lastSched'.before = playheadTime]_vars

\* the first chunk created the context and was scheduled, and a second chunk
\* was scheduled after it on the same clock
C21_Witness ==
    /\ audioContext
    /\ chunksHandled = 2
    /\ lastSched.prevEnd > PreRoll
    /\ lastSched.before = lastSched.prevEnd
    /\ lastSched.now > 0

\* C22: the playback clock is changed by the delivery of audio chunks only:
\* a step that changes playheadTime or the playback context is the handling
\* of an audio chunk; the other messages, the start and the stop of
\* recording and the key operations leave both as they are.
C22_ClockOwnedByPlayback ==
    [][(playheadTime' # playheadTime \/ audioContext' # audioContext)
        => chunksHandled' = chunksHandled + 1]_vars

\* chunks moved the clock; after that the recording was stopped, the keys
\* were cleared and an error message was shown, and the clock is where the
\* last chunk left it
C22_Witness ==
    /\ chunksHandled = MaxChunks
    /\ lastSched.prevEnd >= 0
    /\ playheadTime = lastSched.start + lastSched.dur
    /\ playheadTime > PreRoll
    /\ stopsSinceStart >= 1
    /\ apiKeys = NoKeys
    /\ chatLast = "error"

\* C23: the handshake message carries an entry for the task-creation
\* credential: every api_keys message the client sends has an entry
\* x-todoist-key besides the five other entries.
C23_HandshakeHasTaskKey ==
    \A i \in SocketIds : \A k \in 1 .. Len(sockets[i].sent) :
        sockets[i].sent[k].type = "api_keys"
            => {"x-murf-key", "x-assembly-key", "x-gemini-key", "x-tavily-key",
                "x-weather-key", "x-todoist-key"} \subseteq DOMAIN sockets[i].sent[k].keys

\* the blocks whose frames were sent on socket i, in the order sent
RECURSIVE BlocksOn(_, _)
BlocksOn(i, n) ==
    IF n = 0 THEN <<>>
    ELSE IF sockets[i].sent[n].type = "audio"
         THEN Append(BlocksOn(i, n - 1), sockets[i].sent[n].block)
         ELSE BlocksOn(i, n - 1)

\* C24: the capture path does not buffer: the step in which a block is
\* captured puts its frame at the end of what was sent on the current
\* WebSocket if that socket is OPEN, and otherwise changes no socket; no
\* other step sends a frame; so a block is sent at most once, on one
\* connection, and the frames on a connection are in capture order.
C24_NoBuffering ==
    /\ [][captured' # captured
            => /\ captured' = captured + 1
               /\ IF ws # 0 /\ sockets[ws].readyState = "OPEN"
                  THEN /\ sockets'[ws].sent =
                            Append(sockets[ws].sent,
                                   [type |-> "audio", keys |-> <<>>, block |-> captured'])
                       /\ \A i \in SocketIds \ {ws} : sockets'[i] = sockets[i]
                  ELSE sockets' = sockets]_vars
    /\ [][captured' = captured
            => \A i \in SocketIds :
                  BlocksOn(i, Len(sockets[i].sent))' = BlocksOn(i, Len(sockets[i].sent))]_vars
    /\ [](\A i \in SocketIds :
            LET blocks == BlocksOn(i, Len(sockets[i].sent)) IN
            /\ \A k \in 1 .. Len(blocks) : blocks[k] \in 1 .. captured
            /\ \A k \in 1 .. Len(blocks) - 1 : blocks[k] < blocks[k + 1]
            /\ \A j \in SocketIds \ {i} :
                  \A k \in 1 .. Len(blocks) :
                      \A l \in 1 .. Len(BlocksOn(j, Len(sockets[j].sent))) :
                          BlocksOn(j, Len(sockets[j].sent))[l] # blocks[k])

\* the first block was captured before the socket was open and dropped, the
\* second was sent: the connection carries the handshake and block 2 only
C24_Witness ==
    /\ captured = 2
    /\ ws # 0
    /\ sockets[ws].readyState = "OPEN"
    /\ BlocksOn(ws, Len(sockets[ws].sent)) = <<2>>
    /\ Len(sockets[ws].sent) = 2

\* the payload received begins with the magic bytes "RIFF"
BeginsWithRiff == Len(pcm16) >= 4 /\ SubSeq(pcm16, 1, 4) = <<82, 73, 70, 70>>

\* C25: base64ToPCMFloat32 skips the 44 bytes of the container header
\* whenever the payload begins with "RIFF", and only then: the samples
\* returned for such a payload are the (len - 44) / 2 values from byte 44 on,
\* for any other payload the len / 2 values from byte 0 on.
C25_HeaderStripped ==
    codecPc = "unpacked"
        => LET skip == IF BeginsWithRiff THEN HeaderLen ELSE 0 IN
           /\ Len(decoded) = (Len(pcm16) - skip) \div 2
           /\ \A i \in 1 .. Len(decoded) : decoded[i] = GetInt16(pcm16, skip + 2 * (i - 1))

\* C26: the first chunk of a reply does not inherit the clock of the reply
\* before it: a chunk scheduled when the text of a new reply has arrived
\* since the last chunk was scheduled starts at now + the pre-roll.
C26_NewReplyStartsAtPreRoll ==
    [][(lastSched.replySince /\ chunksHandled' = chunksHandled + 1 /\ lastSched' # lastSched)
        => lastSched'.start = now + PreRoll]_vars

\* the sockets that are connecting or open
LiveSockets == {i \in SocketIds : sockets[i].readyState \in {"CONNECTING", "OPEN"}}

\* the capture pipelines whose microphone stream is acquired
LivePipes == {p \in PipeIds : pipes[p].tracks = "live"}

\* C27: at any time the client has at most one WebSocket connecting or open
\* and at most one microphone stream acquired, also when the start button is
\* clicked again while the first startRecording awaits the permission.
C27_SingleConnection ==
    /\ Cardinality(LiveSockets) <= 1
    /\ Cardinality(LivePipes) <= 1

\* C28: the recording flag reflects the real state: isRecording is true only
\* if a start attempt made a connection and acquired the microphone, so a
\* start refused for a missing synthesis, transcription or generation key,
\* which makes no connection and asks for no microphone, leaves it false.
C28_FlagReflectsState ==
    isRecording => /\ ws # 0
                   /\ stream # 0
                   /\ pipes[stream].tracks = "live"

\* C29: a failed start leaves nothing behind: when every start so far was
\* denied the microphone, no socket is connecting or open and no message was
\* sent on any; and whenever isRecording is false and no start is in
\* progress, the client holds no open connection.
C29_FailedStartLeavesNothing ==
    /\ (StartsMade >= 1 /\ pendingStarts = 0 /\ NoPipeline)
          => /\ LiveSockets = {}
             /\ \A i \in SocketIds : sockets[i].sent = <<>>
    /\ (~isRecording /\ pendingStarts = 0)
          => \A i \in SocketIds : sockets[i].readyState # "OPEN"

\* C30: every audio chunk is scheduled to start no earlier than the pre-roll
\* of 150 ms after the audio time at which it is handled: no chunk starts in
\* the past or with less than the pre-roll of lead.
C30_LeadAtLeastPreRoll ==
    /\ PreRoll = 150
    /\ [](lastSched.start >= 0 => lastSched.start >= lastSched.now + PreRoll)
    /\ [][lastSched' # lastSched /\ chunksHandled' # chunksHandled
            => lastSched'.start >= now + PreRoll]_vars

\* a chunk handled after time has passed was queued behind audio reaching
\* further than the pre-roll, and one handled before it started at the
\* pre-roll exactly
C30_Witness ==
    /\ lastSched.now > 0
    /\ lastSched.dur > 0
    /\ lastSched.start > lastSched.now + PreRoll
    /\ lastSched.prevEnd > PreRoll

====
